---- MODULE Spec2Model ----
(***************************************************************************)
(* Model of src/plugin.rs (bevy_prototype_lyon): the ShapePlugin stage     *)
(* order, mesh_shapes_system with its change-detection query, the          *)
(* CcwBuffersBuilder winding adapter, the fill / stroke drivers and        *)
(* build_mesh.                                                             *)
(*                                                                         *)
(* The lyon tessellators and lyon's BuffersBuilder are library code that   *)
(* plugin.rs calls.  They are modelled at their call sites by their        *)
(* documented contract: a tessellator drives the sink with begin_geometry, *)
(* vertices and triangles and closes with end_geometry, or, on an error,   *)
(* with abort_geometry, and BuffersBuilder::abort_geometry discards what   *)
(* was added since begin_geometry.  Coordinates are small integers.        *)
(***************************************************************************)
EXTENDS Integers, Sequences, FiniteSets, TLC

(* ------------------------------ bounds -------------------------------- *)
MaxEntities == 2
MaxFrames == 2
\* writes (spawns included) the Update-stage systems make in one behaviour
MaxWrites == 2

Entities == 1..MaxEntities

(* ------------------------------- data --------------------------------- *)
\* vertex colours (opaque values copied from the style into every vertex)
Red == "red"
Blue == "blue"
NoColor == "none"

\* Paths: a contour (its points, in order) and how the tessellators end on
\* it: "none" (Ok), "early" (Err before begin_geometry), "abort" (Err after
\* part of the geometry was emitted, closed with abort_geometry).
PathTriCcw ==
    [pts |-> << <<0, 0>>, <<1, 0>>, <<0, 1>> >>, fillErr |-> "none", strokeErr |-> "none"]
PathQuadCw ==
    [pts |-> << <<0, 0>>, <<0, 2>>, <<2, 2>>, <<2, 0>> >>, fillErr |-> "none", strokeErr |-> "abort"]
PathBowtie ==
    [pts |-> << <<0, 0>>, <<2, 2>>, <<2, 0>>, <<0, 2>> >>, fillErr |-> "abort", strokeErr |-> "early"]
Paths == {PathTriCcw, PathQuadCw, PathBowtie}

FillModeOf(c) == [options |-> [tolerance |-> 1], color |-> c]
StrokeModeOf(w, c) == [options |-> [tolerance |-> 1, line_width |-> w], color |-> c]

\* DrawMode, the tagged union matched at plugin.rs:78-92
DrawFill(c) == [tag |-> "Fill", fill_mode |-> FillModeOf(c), outline_mode |-> StrokeModeOf(0, NoColor)]
DrawStroke(w, c) == [tag |-> "Stroke", fill_mode |-> FillModeOf(NoColor), outline_mode |-> StrokeModeOf(w, c)]
DrawOutlined(fc, w, sc) ==
    [tag |-> "Outlined", fill_mode |-> FillModeOf(fc), outline_mode |-> StrokeModeOf(w, sc)]
DrawModes == {DrawFill(Red), DrawStroke(1, Blue), DrawOutlined(Red, 1, Blue)}

\* VertexBuffers::new()
EmptyBuffers == [vertices |-> << >>, indices |-> << >>]

\* twice the signed area of triangle (p, q, r); positive when counter-clockwise
Area2(p, q, r) == (q[1] - p[1]) * (r[2] - p[2]) - (q[2] - p[2]) * (r[1] - p[1])

\* the index sequence s with every index moved up by d
Shift(s, d) == [i \in 1..Len(s) |-> s[i] + d]

Truncate(s, n) == IF Len(s) <= n THEN s ELSE SubSeq(s, 1, n)

IsPrefix(s, t) == Len(s) <= Len(t) /\ SubSeq(t, 1, Len(s)) = s

(* ------------------- lyon BuffersBuilder (the sink) -------------------- *)
\* A builder over `buffers` with a vertex constructor stamping `color`.
\* `log` records every call the wrapped builder receives, with its result.
BB_new(buffers, color) ==
    [buffers |-> buffers,
     vertex_offset |-> Len(buffers.vertices),
     index_offset |-> Len(buffers.indices),
     color |-> color,
     log |-> << >>]

Logged(bb, op, arg, res) == Append(bb.log, [op |-> op, arg |-> arg, res |-> res])

BB_begin_geometry(bb) ==
    [bb |-> [bb EXCEPT !.vertex_offset = Len(bb.buffers.vertices),
                       !.index_offset = Len(bb.buffers.indices),
                       !.log = Logged(bb, "begin_geometry", << >>, << >>)],
     res |-> << >>]

BB_end_geometry(bb) ==
    LET count == <<Len(bb.buffers.vertices) - bb.vertex_offset,
                   Len(bb.buffers.indices) - bb.index_offset>>
    IN [bb |-> [bb EXCEPT !.log = Logged(bb, "end_geometry", << >>, count)],
        res |-> count]

BB_abort_geometry(bb) ==
    [bb |-> [bb EXCEPT !.buffers.vertices = Truncate(bb.buffers.vertices, bb.vertex_offset),
                       !.buffers.indices = Truncate(bb.buffers.indices, bb.index_offset),
                       !.log = Logged(bb, "abort_geometry", << >>, << >>)],
     res |-> << >>]

BB_add_triangle(bb, a, b, c) ==
    [bb |-> [bb EXCEPT !.buffers.indices =
                           bb.buffers.indices \o <<a + bb.vertex_offset,
                                                   b + bb.vertex_offset,
                                                   c + bb.vertex_offset>>,
                       !.log = Logged(bb, "add_triangle", <<a, b, c>>, << >>)],
     res |-> << >>]

\* VertexConstructor { color }: the vertex keeps the position and takes the
\* style's colour
NewVertex(pos, color) == [position |-> pos, color |-> color]

BB_add_vertex(bb, op, pos) ==
    LET vs == Append(bb.buffers.vertices, NewVertex(pos, bb.color))
        id == <<Len(vs) - 1 - bb.vertex_offset>>
    IN [bb |-> [bb EXCEPT !.buffers.vertices = vs,
                          !.log = Logged(bb, op, pos, id)],
        res |-> id]

(* ------------------- CcwBuffersBuilder (the adapter) ------------------- *)
begin_geometry(bb) == BB_begin_geometry(bb)

end_geometry(bb) == BB_end_geometry(bb)

\* mutant: the abort is not passed on to the wrapped builder
abort_geometry_unforwarded(bb) == [bb |-> bb, res |-> << >>]

abort_geometry(bb) == BB_abort_geometry(bb)

\* mutant: the triangle is passed on in the order it came
add_triangle_unswapped(bb, a, b, c) == BB_add_triangle(bb, a, b, c)

add_triangle(bb, a, b, c) == BB_add_triangle(bb, a, c, b)

\* mutant: the vertex is not passed on; an id is made up for it
add_fill_vertex_unforwarded(bb, pos) ==
    [bb |-> bb, res |-> <<Len(bb.buffers.vertices) - bb.vertex_offset>>]

add_fill_vertex(bb, pos) == BB_add_vertex(bb, "add_fill_vertex", pos)

add_stroke_vertex(bb, pos) == BB_add_vertex(bb, "add_stroke_vertex", pos)

(* ---------------- lyon tessellators (the environment) ------------------ *)
\* What a tessellator asks of its sink: a sequence of commands.  A triangle
\* names its corners by the order in which the vertices were added; the
\* driver turns them into the vertex ids the sink returned.
Cmd(op, arg) == [op |-> op, arg |-> arg]

\* lyon emits clockwise triangles (plugin.rs:98-101)
CwOrder(pts, a, b, c) ==
    IF Area2(pts[a], pts[b], pts[c]) > 0 THEN <<a, c, b>> ELSE <<a, b, c>>

VertexCmds(pts) == [i \in 1..Len(pts) |-> Cmd("vertex", pts[i])]

\* fill: the contour's points and a fan of clockwise triangles
FillPoints(path) == path.pts

FillTriangles(path) ==
    LET pts == FillPoints(path)
    IN [i \in 1..(Len(pts) - 2) |-> Cmd("triangle", CwOrder(pts, 1, i + 1, i + 2))]

\* stroke: two points per contour point (the ribbon's two sides) and two
\* clockwise triangles per edge
StrokePoints(path, options) ==
    LET n == Len(path.pts)
        w == options.line_width
    IN [k \in 1..(2 * n) |->
           LET p == path.pts[(k + 1) \div 2]
           IN IF k % 2 = 1 THEN p ELSE <<p[1] + w, p[2] + w>>]

StrokeTriangles(path, options) ==
    LET n == Len(path.pts)
        pts == StrokePoints(path, options)
    IN [k \in 1..(2 * n) |->
           LET i == (k + 1) \div 2
               j == (i % n) + 1
           IN IF k % 2 = 1
                 THEN Cmd("triangle", CwOrder(pts, 2 * i - 1, 2 * i, 2 * j - 1))
                 ELSE Cmd("triangle", CwOrder(pts, 2 * i, 2 * j, 2 * j - 1))]

\* The commands of one tessellate_path call.  An "abort" run stops after the
\* first triangle and closes with abort_geometry; an "early" run returns
\* Err before it touches the sink.
Commands(err, points, triangles) ==
    CASE err = "none" ->
           <<Cmd("begin", << >>)>> \o VertexCmds(points) \o triangles \o <<Cmd("end", << >>)>>
      [] err = "abort" ->
           <<Cmd("begin", << >>)>> \o VertexCmds(points) \o SubSeq(triangles, 1, 1)
               \o <<Cmd("abort", << >>)>>
      [] OTHER -> << >>

\* One command through the adapter (kind: "fill" or "stroke").
SinkCall(bb, kind, cmd, ids) ==
    CASE cmd.op = "begin" -> begin_geometry(bb)
      [] cmd.op = "end" -> end_geometry(bb)
      [] cmd.op = "abort" -> abort_geometry(bb)
      [] cmd.op = "triangle" ->
           add_triangle(bb, ids[cmd.arg[1]], ids[cmd.arg[2]], ids[cmd.arg[3]])
      [] OTHER ->
           IF kind = "fill" THEN add_fill_vertex(bb, cmd.arg)
                            ELSE add_stroke_vertex(bb, cmd.arg)

OuterOp(kind, cmd) ==
    CASE cmd.op = "begin" -> "begin_geometry"
      [] cmd.op = "end" -> "end_geometry"
      [] cmd.op = "abort" -> "abort_geometry"
      [] cmd.op = "triangle" -> "add_triangle"
      [] OTHER -> IF kind = "fill" THEN "add_fill_vertex" ELSE "add_stroke_vertex"

OuterArg(cmd, ids) ==
    IF cmd.op = "triangle"
       THEN <<ids[cmd.arg[1]], ids[cmd.arg[2]], ids[cmd.arg[3]]>>
       ELSE cmd.arg

RECURSIVE Drive(_, _, _, _, _)
\* Runs the commands from the i-th on; `outer` records the calls made on the
\* adapter with the results it returned.
Drive(cmds, i, kind, st, ids) ==
    IF i > Len(cmds) THEN st
    ELSE LET cmd == cmds[i]
             r == SinkCall(st.bb, kind, cmd, ids)
             entry == [op |-> OuterOp(kind, cmd), arg |-> OuterArg(cmd, ids), res |-> r.res]
         IN Drive(cmds, i + 1, kind,
                  [bb |-> r.bb, outer |-> Append(st.outer, entry)],
                  IF cmd.op = "vertex" THEN Append(ids, r.res[1]) ELSE ids)

\* tess.tessellate_path(path, &mode.options, &mut CcwBuffersBuilder(..))
tessellate_path(kind, path, options, bb) ==
    LET err == IF kind = "fill" THEN path.fillErr ELSE path.strokeErr
        cmds == IF kind = "fill"
                   THEN Commands(err, FillPoints(path), FillTriangles(path))
                   ELSE Commands(err, StrokePoints(path, options),
                                 StrokeTriangles(path, options))
        st == Drive(cmds, 1, kind, [bb |-> bb, outer |-> << >>], << >>)
    IN [bb |-> st.bb, outer |-> st.outer, cmds |-> cmds, ok |-> (err = "none")]

(* ----------------------------- drivers --------------------------------- *)
\* The result of a driver call: the buffers it leaves, what it logged,
\* whether it returned normally, and the calls seen on both sides of the
\* adapter.
DriverResult(kind, before, r, msg) ==
    [kind |-> kind,
     before |-> before,
     buffers |-> r.bb.buffers,
     logged |-> IF r.ok THEN << >> ELSE <<msg>>,
     raised |-> FALSE,
     failed |-> ~r.ok,
     cmds |-> r.cmds,
     outer |-> r.outer,
     inner |-> r.bb.log]

\* mutant: the tessellator's error is not swallowed
fill_propagating(path, mode, buffers) ==
    LET r == DriverResult("fill", buffers,
                          tessellate_path("fill", path, mode.options,
                                          BB_new(buffers, mode.color)),
                          "FillTessellator error")
    IN [r EXCEPT !.raised = r.failed]

fill(path, mode, buffers) ==
    DriverResult("fill", buffers,
                 tessellate_path("fill", path, mode.options, BB_new(buffers, mode.color)),
                 "FillTessellator error")

\* mutant: the stroke starts from cleared buffers
stroke_cleared(path, mode, buffers) ==
    DriverResult("stroke", buffers,
                 tessellate_path("stroke", path, mode.options,
                                 BB_new(EmptyBuffers, mode.color)),
                 "StrokeTessellator error")

stroke(path, mode, buffers) ==
    DriverResult("stroke", buffers,
                 tessellate_path("stroke", path, mode.options, BB_new(buffers, mode.color)),
                 "StrokeTessellator error")

(* ---------------------------- build_mesh ------------------------------- *)
\* mutant: the third position component repeats the second
build_mesh_z_from_y(buffers) ==
    [topology |-> "TriangleList",
     indices |-> buffers.indices,
     positions |-> [i \in 1..Len(buffers.vertices) |->
                       <<buffers.vertices[i].position[1],
                         buffers.vertices[i].position[2],
                         buffers.vertices[i].position[2]>>],
     colors |-> [i \in 1..Len(buffers.vertices) |-> buffers.vertices[i].color]]

build_mesh(buffers) ==
    [topology |-> "TriangleList",
     indices |-> buffers.indices,
     positions |-> [i \in 1..Len(buffers.vertices) |->
                       <<buffers.vertices[i].position[1],
                         buffers.vertices[i].position[2], 0>>],
     colors |-> [i \in 1..Len(buffers.vertices) |-> buffers.vertices[i].color]]

(* ------------- one iteration of mesh_shapes_system's loop -------------- *)
\* mutant: Outlined strokes before it fills
DispatchStrokeFirst(path, tess_mode) ==
    LET buffers == EmptyBuffers
    IN CASE tess_mode.tag = "Fill" -> <<fill(path, tess_mode.fill_mode, buffers)>>
         [] tess_mode.tag = "Stroke" -> <<stroke(path, tess_mode.outline_mode, buffers)>>
         [] OTHER ->
              LET k == stroke(path, tess_mode.outline_mode, buffers)
              IN <<k, fill(path, tess_mode.fill_mode, k.buffers)>>

\* The match on the DrawMode: the driver calls made, in order, into one
\* buffer that starts empty.  A call that does not return ends the pass.
Dispatch(path, tess_mode) ==
    LET buffers == EmptyBuffers
    IN CASE tess_mode.tag = "Fill" -> <<fill(path, tess_mode.fill_mode, buffers)>>
         [] tess_mode.tag = "Stroke" -> <<stroke(path, tess_mode.outline_mode, buffers)>>
         [] OTHER ->
              LET f == fill(path, tess_mode.fill_mode, buffers)
              IN IF f.raised THEN <<f>>
                 ELSE <<f, stroke(path, tess_mode.outline_mode, f.buffers)>>

FinalBuffers(calls) == calls[Len(calls)].buffers

Raised(calls) == \E i \in 1..Len(calls) : calls[i].raised

(* ------------------------------ state ---------------------------------- *)
VARIABLES
    world,       \* entity -> its components and their change ticks
    meshes,      \* Assets<Mesh>: the handle h names meshes[h]
    frame,       \* the frame being run
    stageIx,     \* position in Stages; past the last one the frame renders
    changeTick,  \* the world's change tick
    sys,         \* mesh_shapes_system: its pc, query iterator, last run tick
    dirty,       \* entity -> Path or DrawMode written since the last run ended
    written,     \* entity -> Path or DrawMode written in this frame
    pass,        \* what this frame's run of the system saw and did
    last,        \* the running system's latest loop iteration (0 or 1 records)
    writes       \* writes made so far by the Update-stage systems

vars ==
    <<world, meshes, frame, stageIx, changeTick, sys, dirty, written, pass, last, writes>>

\* mutant: Stage::Shape is added before CoreStage::Update
StagesShapeFirst == <<"Shape", "Update">>

\* ShapePlugin::build: Stage::Shape is added after CoreStage::Update
Stages == <<"Update", "Shape">>

Stage == IF stageIx <= Len(Stages) THEN Stages[stageIx] ELSE "Render"

DefaultHandle == 0

NoEntity ==
    [alive |-> FALSE, hasHandle |-> FALSE, path |-> PathTriCcw, mode |-> DrawFill(Red),
     mesh |-> DefaultHandle, pathTick |-> 0, modeTick |-> 0, meshTick |-> 0]

AllFalse == [e \in Entities |-> FALSE]

\* no run of the system in this frame yet
NoPass ==
    [frame |-> 0, dirty |-> AllFalse, preMesh |-> [e \in Entities |-> DefaultHandle],
     preCount |-> 0, calls |-> [e \in Entities |-> 0], done |-> << >>]

Init ==
    /\ world = [e \in Entities |-> NoEntity]
    /\ meshes = << >>
    /\ frame = 1
    /\ stageIx = 1
    /\ changeTick = 1
    /\ sys = [pc |-> "idle", queue |-> << >>, lastRun |-> 0]
    /\ dirty = AllFalse
    /\ written = AllFalse
    /\ pass = NoPass
    /\ last = << >>
    /\ writes = 0

(* ------------------- systems of the Update stage ----------------------- *)
\* an Update-stage system spawns an entity with a Path and a DrawMode, as a
\* ShapeBundle (with a Mesh2dHandle) or without the handle; entity ids are
\* handed out in order
Spawn(e, p, m, hh) ==
    /\ Stage = "Update"
    /\ writes < MaxWrites
    /\ ~world[e].alive
    /\ \A o \in 1..(e - 1) : world[o].alive
    /\ world' = [world EXCEPT ![e] =
                    [alive |-> TRUE, hasHandle |-> hh, path |-> p, mode |-> m,
                     mesh |-> DefaultHandle, pathTick |-> changeTick,
                     modeTick |-> changeTick, meshTick |-> changeTick]]
    /\ dirty' = [dirty EXCEPT ![e] = TRUE]
    /\ written' = [written EXCEPT ![e] = TRUE]
    /\ writes' = writes + 1
    /\ UNCHANGED <<meshes, frame, stageIx, changeTick, sys, pass, last>>

\* an Update-stage system writes an entity's Path (the same value counts)
SetPath(e, p) ==
    /\ Stage = "Update"
    /\ writes < MaxWrites
    /\ world[e].alive
    /\ world' = [world EXCEPT ![e].path = p, ![e].pathTick = changeTick]
    /\ dirty' = [dirty EXCEPT ![e] = TRUE]
    /\ written' = [written EXCEPT ![e] = TRUE]
    /\ writes' = writes + 1
    /\ UNCHANGED <<meshes, frame, stageIx, changeTick, sys, pass, last>>

\* an Update-stage system writes an entity's DrawMode
SetMode(e, m) ==
    /\ Stage = "Update"
    /\ writes < MaxWrites
    /\ world[e].alive
    /\ world' = [world EXCEPT ![e].mode = m, ![e].modeTick = changeTick]
    /\ dirty' = [dirty EXCEPT ![e] = TRUE]
    /\ written' = [written EXCEPT ![e] = TRUE]
    /\ writes' = writes + 1
    /\ UNCHANGED <<meshes, frame, stageIx, changeTick, sys, pass, last>>

\* the Update stage ends; the next stage's systems run at a later tick
EndUpdate ==
    /\ Stage = "Update"
    /\ stageIx' = stageIx + 1
    /\ changeTick' = changeTick + 1
    /\ UNCHANGED <<world, meshes, frame, sys, dirty, written, pass, last, writes>>

(* ------------------------ mesh_shapes_system --------------------------- *)
\* mutant: the query has no change filter
MatchesUnfiltered(e) == world[e].alive /\ world[e].hasHandle

\* Query<(&DrawMode, &Path, &mut Mesh2dHandle), Or<(Changed<Path>, Changed<DrawMode>)>>
Matches(e) ==
    /\ world[e].alive
    /\ world[e].hasHandle
    /\ (world[e].pathTick > sys.lastRun \/ world[e].modeTick > sys.lastRun)

RECURSIVE QueryIter(_)
\* the matching entities from e on, in storage order
QueryIter(e) ==
    IF e > MaxEntities THEN << >>
    ELSE (IF Matches(e) THEN <<e>> ELSE << >>) \o QueryIter(e + 1)

\* the system is entered: query.iter_mut()
RunBegin ==
    /\ Stage = "Shape"
    /\ sys.pc = "idle"
    /\ sys' = [sys EXCEPT !.pc = "running", !.queue = QueryIter(1)]
    /\ pass' = [frame |-> frame, dirty |-> dirty,
                preMesh |-> [e \in Entities |-> world[e].mesh],
                preCount |-> Len(meshes),
                calls |-> [e \in Entities |-> 0], done |-> << >>]
    /\ last' = << >>
    /\ UNCHANGED <<world, meshes, frame, stageIx, changeTick, dirty, written, writes>>

\* one iteration of the loop (plugin.rs:75-95)
MeshEntity ==
    /\ sys.pc = "running"
    /\ sys.queue # << >>
    /\ LET e == Head(sys.queue)
           calls == Dispatch(world[e].path, world[e].mode)
           handle == Len(meshes) + 1
       IN /\ pass' = [pass EXCEPT !.calls[e] = Len(calls), !.done = Append(pass.done, e)]
          /\ IF Raised(calls)
                THEN /\ sys' = [sys EXCEPT !.pc = "crashed", !.queue = << >>]
                     /\ last' = <<[ent |-> e, path |-> world[e].path, mode |-> world[e].mode,
                                   calls |-> calls, completed |-> FALSE,
                                   handle |-> world[e].mesh]>>
                     /\ UNCHANGED <<world, meshes>>
                ELSE /\ meshes' = Append(meshes, build_mesh(FinalBuffers(calls)))
                     /\ world' = [world EXCEPT ![e].mesh = handle,
                                               ![e].meshTick = changeTick]
                     /\ sys' = [sys EXCEPT !.queue = Tail(sys.queue)]
                     /\ last' = <<[ent |-> e, path |-> world[e].path, mode |-> world[e].mode,
                                   calls |-> calls, completed |-> TRUE,
                                   handle |-> handle]>>
    /\ UNCHANGED <<frame, stageIx, changeTick, dirty, written, writes>>

\* the loop is over: the system returns and the stage ends
RunEnd ==
    /\ sys.pc = "running"
    /\ sys.queue = << >>
    /\ sys' = [sys EXCEPT !.pc = "idle", !.lastRun = changeTick]
    /\ dirty' = AllFalse
    /\ last' = << >>
    /\ stageIx' = stageIx + 1
    /\ changeTick' = changeTick + 1
    /\ UNCHANGED <<world, meshes, frame, written, pass, writes>>

\* the frame renders and the next one starts
NextFrame ==
    /\ Stage = "Render"
    /\ frame < MaxFrames
    /\ frame' = frame + 1
    /\ stageIx' = 1
    /\ written' = AllFalse
    /\ pass' = NoPass
    /\ UNCHANGED <<world, meshes, changeTick, sys, dirty, last, writes>>

Next ==
    \/ \E e \in Entities, p \in Paths, m \in DrawModes, hh \in BOOLEAN : Spawn(e, p, m, hh)
    \/ \E e \in Entities, p \in Paths : SetPath(e, p)
    \/ \E e \in Entities, m \in DrawModes : SetMode(e, m)
    \/ EndUpdate
    \/ RunBegin
    \/ MeshEntity
    \/ RunEnd
    \/ NextFrame

Spec == Init /\ [][Next]_vars

(* ============================== claims ================================= *)
Last == last[1]

\* the mesh mesh_shapes_system builds for a path and a mode
MeshFor(path, mode) == build_mesh(FinalBuffers(Dispatch(path, mode)))

\* the latest run of the system belongs to the current frame
PassThisFrame == pass.frame = frame

InDone(e) == \E i \in 1..Len(pass.done) : pass.done[i] = e

\* C1: change gating.  An entity whose Path and DrawMode were not written
\* between the previous run of mesh_shapes_system and this one gets no fill
\* or stroke call in this run, no mesh is added for it, and its mesh handle
\* keeps the value the previous run left (the system's own write to the
\* handle does not make it match).
C1_ChangeGating ==
    PassThisFrame =>
        \A e \in Entities :
            ~pass.dirty[e] =>
                /\ pass.calls[e] = 0
                /\ ~InDone(e)
                /\ world[e].mesh = pass.preMesh[e]

\* a second run is over: one entity, meshed by the first run, was left alone
\* while another one was re-meshed
C1_Witness ==
    /\ frame = 2
    /\ PassThisFrame
    /\ Stage = "Render"
    /\ \E e, o \in Entities :
          /\ world[e].alive /\ world[e].hasHandle
          /\ ~pass.dirty[e]
          /\ world[e].mesh # DefaultHandle
          /\ world[e].meshTick > 0
          /\ InDone(o)

\* C2: same-frame meshing.  When the frame renders, every entity holding a
\* Path, a DrawMode and a Mesh2dHandle whose Path or DrawMode was added or
\* written by an Update-stage system of this frame has been tessellated in
\* this frame and its handle names a mesh registered by that run, built from
\* its current Path and DrawMode.
C2_SameFrameMeshing ==
    Stage = "Render" =>
        \A e \in Entities :
            (world[e].alive /\ world[e].hasHandle /\ written[e]) =>
                /\ PassThisFrame
                /\ InDone(e)
                /\ pass.calls[e] >= 1
                /\ world[e].mesh > pass.preCount
                /\ world[e].mesh \in 1..Len(meshes)
                /\ meshes[world[e].mesh] = MeshFor(world[e].path, world[e].mode)

C2_Witness ==
    /\ Stage = "Render"
    /\ \E e \in Entities :
          /\ world[e].alive /\ world[e].hasHandle /\ written[e]
          /\ world[e].mesh # DefaultHandle
          /\ Len(meshes[world[e].mesh].indices) > 0

\* number of entries of a call log with the given operation
CountOp(log, op) == Cardinality({k \in 1..Len(log) : log[k].op = op})

AdapterForwards(call) ==
    /\ Len(call.inner) = Len(call.outer)
    /\ \A k \in 1..Len(call.outer) :
          LET o == call.outer[k]
              i == call.inner[k]
          IN /\ i.op = o.op
             /\ i.res = o.res
             /\ IF o.op = "add_triangle"
                   THEN i.arg = <<o.arg[1], o.arg[3], o.arg[2]>>
                   ELSE i.arg = o.arg
    /\ \A op \in {"add_triangle", "add_fill_vertex", "add_stroke_vertex"} :
          CountOp(call.inner, op) = CountOp(call.outer, op)

\* C3: winding adapter.  Every call made on CcwBuffersBuilder reaches the
\* wrapped builder exactly once, in order; add_triangle(a, b, c) arrives as
\* (a, c, b), every other call arrives with its arguments unchanged, and the
\* wrapped builder's result is what the adapter returns.  The wrapped builder
\* so receives as many vertices, with the same attributes, and as many
\* triangles as were submitted.
C3_WindingAdapter ==
    last # << >> =>
        \A n \in 1..Len(Last.calls) : AdapterForwards(Last.calls[n])

C3_Witness ==
    /\ last # << >>
    /\ \E n \in 1..Len(Last.calls) :
          LET c == Last.calls[n]
          IN /\ CountOp(c.outer, "add_triangle") >= 2
             /\ CountOp(c.outer, "add_fill_vertex") >= 3
             /\ CountOp(c.outer, "end_geometry") = 1
             /\ \E k \in 1..Len(c.outer) :
                   c.outer[k].op = "add_triangle" /\ c.outer[k].arg[2] # c.outer[k].arg[3]

\* every turn of the closed contour goes the same way, and none is flat
IsConvex(pts) ==
    LET n == Len(pts)
        turn(i) == Area2(pts[i], pts[(i % n) + 1], pts[((i + 1) % n) + 1])
    IN /\ n >= 3
       /\ \/ \A i \in 1..n : turn(i) > 0
          \/ \A i \in 1..n : turn(i) < 0

Position(buffers, index) == buffers.vertices[index + 1].position

AllCcw(buffers) ==
    \A t \in 1..(Len(buffers.indices) \div 3) :
        Area2(Position(buffers, buffers.indices[3 * t - 2]),
              Position(buffers, buffers.indices[3 * t - 1]),
              Position(buffers, buffers.indices[3 * t])) > 0

\* C4: for a closed convex polygon path, a fill through the adapter into a
\* fresh buffer leaves at least 3 vertices, a number of indices that is a
\* multiple of 3, and only triangles of positive signed area
\* (counter-clockwise), the tessellator emitting clockwise triangles.
C4_ConvexFillCcw ==
    (last # << >> /\ IsConvex(Last.path.pts) /\ Last.calls[1].kind = "fill") =>
        LET b == Last.calls[1].buffers
        IN /\ Len(b.vertices) >= 3
           /\ Len(b.indices) % 3 = 0
           /\ Len(b.indices) >= 3
           /\ AllCcw(b)

\* both orientations of the input contour
C4_Witness ==
    /\ last # << >>
    /\ Last.calls[1].kind = "fill"
    /\ IsConvex(Last.path.pts)
    /\ Area2(Last.path.pts[1], Last.path.pts[2], Last.path.pts[3]) < 0
    /\ Len(Last.calls[1].buffers.indices) = 6

\* C5: Outlined.  The buffer built for DrawMode::Outlined is the buffer of
\* fill(path, fill_mode) alone followed by the buffer of
\* stroke(path, outline_mode) alone: fill vertices then stroke vertices, fill
\* triangles then stroke triangles, the stroke's indices counted from the
\* first stroke vertex, so that no triangle of one sub-pass names a vertex of
\* the other.
C5_OutlinedConcat ==
    (last # << >> /\ Last.mode.tag = "Outlined") =>
        LET f == fill(Last.path, Last.mode.fill_mode, EmptyBuffers).buffers
            s == stroke(Last.path, Last.mode.outline_mode, EmptyBuffers).buffers
            b == FinalBuffers(Last.calls)
            nv == Len(f.vertices)
            ni == Len(f.indices)
        IN /\ Len(Last.calls) = 2
           /\ Last.calls[1].kind = "fill" /\ Last.calls[2].kind = "stroke"
           /\ b.vertices = f.vertices \o s.vertices
           /\ b.indices = f.indices \o Shift(s.indices, nv)
           /\ \A k \in 1..Len(b.indices) :
                 IF k <= ni THEN b.indices[k] < nv
                            ELSE b.indices[k] >= nv /\ b.indices[k] < Len(b.vertices)
           /\ Last.completed
           /\ meshes[Last.handle] = build_mesh(b)

C5_Witness ==
    /\ last # << >>
    /\ Last.mode.tag = "Outlined"
    /\ Len(Last.calls[1].buffers.indices) > 0
    /\ Len(FinalBuffers(Last.calls).indices) > Len(Last.calls[1].buffers.indices)

AnyFailed(calls) == \E n \in 1..Len(calls) : calls[n].failed

\* C6: failure containment.  A tessellator error makes fill / stroke log and
\* return normally; the system does not stop; the failing entity's handle is
\* overwritten with a mesh built from the buffers as they are; and every
\* entity of the pass, those after a failing one included, holds the mesh of
\* its own Path and DrawMode.
C6_FailureContainment ==
    /\ sys.pc # "crashed"
    /\ last # << >> =>
          /\ \A n \in 1..Len(Last.calls) :
                /\ ~Last.calls[n].raised
                /\ Last.calls[n].failed <=> Last.calls[n].logged # << >>
          /\ Last.completed
          /\ world[Last.ent].mesh = Last.handle
          /\ Last.handle > pass.preCount
          /\ meshes[Last.handle] = build_mesh(FinalBuffers(Last.calls))
    /\ PassThisFrame =>
          \A i \in 1..Len(pass.done) :
             LET e == pass.done[i]
             IN meshes[world[e].mesh] = MeshFor(world[e].path, world[e].mode)
    /\ (PassThisFrame /\ Stage = "Render") =>
          \A e \in Entities :
             (world[e].alive /\ world[e].hasHandle /\ pass.dirty[e]) => InDone(e)

\* a pass is over in which an entity was meshed after a failing one
C6_Witness ==
    /\ PassThisFrame
    /\ Stage = "Render"
    /\ Len(pass.done) = 2
    /\ AnyFailed(Dispatch(world[pass.done[1]].path, world[pass.done[1]].mode))
    /\ ~AnyFailed(Dispatch(world[pass.done[2]].path, world[pass.done[2]].mode))
    /\ Len(meshes[world[pass.done[2]].mesh].indices) > 0

RECURSIVE EmittedVertices(_, _)
\* the vertices a driver call submitted, from the k-th adapter call on
EmittedVertices(call, k) ==
    IF k > Len(call.outer) THEN << >>
    ELSE (IF call.outer[k].op \in {"add_fill_vertex", "add_stroke_vertex"}
             THEN <<call.outer[k].arg>> ELSE << >>) \o EmittedVertices(call, k + 1)

FailedAfterEmitting(call) ==
    /\ call.failed
    /\ EmittedVertices(call, 1) # << >>
    /\ CountOp(call.outer, "add_triangle") > 0

ValidBuffers(buffers) ==
    /\ Len(buffers.indices) % 3 = 0
    /\ \A k \in 1..Len(buffers.indices) :
          buffers.indices[k] >= 0 /\ buffers.indices[k] < Len(buffers.vertices)

\* C8: after every fill and stroke call made from a fresh VertexBuffers,
\* failed or not, every index is below the number of vertices and the number
\* of indices is a multiple of 3; and so for the index and position lists of
\* every mesh in the asset store.
C8_BuffersInvariant ==
    /\ last # << >> =>
          \A n \in 1..Len(Last.calls) :
              ValidBuffers(Last.calls[n].before) /\ ValidBuffers(Last.calls[n].buffers)
    /\ \A h \in 1..Len(meshes) :
          /\ Len(meshes[h].indices) % 3 = 0
          /\ \A k \in 1..Len(meshes[h].indices) :
                meshes[h].indices[k] < Len(meshes[h].positions)

C8_Witness ==
    /\ last # << >>
    /\ AnyFailed(Last.calls)
    /\ \E h1, h2 \in 1..Len(meshes) :
          /\ meshes[h1].indices = << >> /\ meshes[h1].positions = << >>
          /\ Len(meshes[h2].indices) > 3

\* C9: append-only drivers.  What was in the buffers before a fill or stroke
\* call is still there after it, failed or not, as a prefix of the vertices
\* and of the indices.
C9_AppendOnly ==
    last # << >> =>
        \A n \in 1..Len(Last.calls) :
            LET c == Last.calls[n]
            IN /\ IsPrefix(c.before.vertices, c.buffers.vertices)
               /\ IsPrefix(c.before.indices, c.buffers.indices)
               /\ n > 1 => c.before = Last.calls[n - 1].buffers

C9_Witness ==
    /\ last # << >>
    /\ Len(Last.calls) = 2
    /\ Len(Last.calls[2].before.vertices) > 0
    /\ ~Last.calls[2].failed
    /\ Len(Last.calls[2].buffers.vertices) > Len(Last.calls[2].before.vertices)

\* C10: build_mesh.  The mesh is a triangle list whose indices are the
\* buffer's, whose positions are (x, y, 0) of each buffer vertex in order and
\* whose colours are each vertex's colour in order.  The triangle
\* (0,0),(1,0),(0,1) filled red gives 3 positions with z = 0, 3 indices and 3
\* red colours.
C10_BuildMeshFaithful ==
    (last # << >> /\ Last.completed) =>
        LET b == FinalBuffers(Last.calls)
            m == meshes[Last.handle]
        IN /\ m.topology = "TriangleList"
           /\ m.indices = b.indices
           /\ Len(m.positions) = Len(b.vertices)
           /\ Len(m.colors) = Len(b.vertices)
           /\ \A i \in 1..Len(b.vertices) :
                 /\ m.positions[i] = <<b.vertices[i].position[1], b.vertices[i].position[2], 0>>
                 /\ m.colors[i] = b.vertices[i].color
           /\ (Last.path = PathTriCcw /\ Last.mode = DrawFill(Red)) =>
                 /\ Len(m.indices) = 3
                 /\ {m.positions[i] : i \in 1..Len(m.positions)} =
                       {<<0, 0, 0>>, <<1, 0, 0>>, <<0, 1, 0>>}
                 /\ Len(m.positions) = 3
                 /\ m.colors = <<Red, Red, Red>>

C10_Witness ==
    /\ last # << >>
    /\ Last.completed
    /\ Last.path = PathTriCcw
    /\ Last.mode = DrawFill(Red)
    /\ Len(meshes[Last.handle].positions) = 3

====
